---- MODULE Spec2Model ----
(***************************************************************************)
(* A model of oil_report.py: the daily oil and bunker price report.        *)
(*                                                                         *)
(* Python strings are TLA+ strings (Len, \o and SubSeq act on them), dates *)
(* are proleptic Gregorian ordinals as datetime keeps them, a dict is a    *)
(* function over its key set, and a float is a whole number of thousandths *)
(* tagged as a number, so that rounding and formatting to 2 decimals are   *)
(* real conversions.                                                       *)
(***************************************************************************)
EXTENDS Integers, Sequences, FiniteSets, TLC

VARIABLES
    pc,           \* position of the run (or of the function under study)
    now,          \* the clock: ordinal of the current day
    ticks,        \* midnights passed since the start
    arg,          \* arguments of the function under study
    ret,          \* its return value
    dates,        \* main: dates
    http,         \* the answers of the outbound calls, per call site
    wti,          \* main: wti
    brent,        \* main: brent
    bunker_data,  \* fetch_singapore_bunker_prices: bunker_data
    found,        \* fetch_singapore_bunker_prices: header_indices, singapore_row
    email_body,   \* main: email_body
    console,      \* what has been printed, in order
    raised        \* the exception that left the run, or "none"

vars == <<pc, now, ticks, arg, ret, dates, http, wti, brent, bunker_data,
          found, email_body, console, raised>>

-----------------------------------------------------------------------------
(* Bounds *)

\* days the clock may start on, from BaseDay
NumDays == 14
\* largest N asked of get_past_business_dates
MaxDays == 4
\* midnights that may pass during one run
MaxTicks == 1
\* records in one price API answer
MaxObs == 4
\* days a whole run may start on, from BaseDay
RunDays == 4

\* 2025-12-25 (a Thursday) as date.toordinal()
BaseDay == 739610

-----------------------------------------------------------------------------
(* Strings *)

\* the characters the model orders, in ASCII order
Ascii == " $,-./0123456789:ABCDEFGHIJKLMNOPQRSTUVWXYZabcdefghijklmnopqrstuvwxyz|"

CharAt(s, i) == SubSeq(s, i, i)

CharCode(c) == CHOOSE i \in 1..Len(Ascii) : CharAt(Ascii, i) = c

RECURSIVE StrLess(_, _)
\* Python's < on str: lexicographic by code point
StrLess(s, t) ==
    IF Len(t) = 0 THEN FALSE
    ELSE IF Len(s) = 0 THEN TRUE
    ELSE IF CharAt(s, 1) # CharAt(t, 1)
         THEN CharCode(CharAt(s, 1)) < CharCode(CharAt(t, 1))
    ELSE StrLess(SubSeq(s, 2, Len(s)), SubSeq(t, 2, Len(t)))

RECURSIVE Repeat(_, _)
\* c * n
Repeat(c, n) == IF n <= 0 THEN "" ELSE c \o Repeat(c, n - 1)

\* f"{s:<w}": left-justified in w columns, never truncated
LJust(s, w) == s \o Repeat(" ", w - Len(s))

\* needle in s
Contains(s, needle) ==
    \E i \in 1..(Len(s) - Len(needle) + 1) :
        SubSeq(s, i, i + Len(needle) - 1) = needle

RECURSIVE Replace(_, _)
\* s.replace(c, '') for a single character c
Replace(s, c) ==
    IF Len(s) = 0 THEN ""
    ELSE (IF CharAt(s, 1) = c THEN "" ELSE CharAt(s, 1))
         \o Replace(SubSeq(s, 2, Len(s)), c)

Digit(d) == CharAt("0123456789", d + 1)

IsDigit(c) == \E d \in 0..9 : Digit(d) = c

DigitVal(c) == CHOOSE d \in 0..9 : Digit(d) = c

RECURSIVE Decimal(_)
\* str(n) for n >= 0
Decimal(n) == IF n < 10 THEN Digit(n) ELSE Decimal(n \div 10) \o Digit(n % 10)

\* n zero-padded to w digits (%Y, %m, %d)
ZeroPad(n, w) == Repeat("0", w - Len(Decimal(n))) \o Decimal(n)

RECURSIVE InsertSorted(_, _)
InsertSorted(x, s) ==
    IF Len(s) = 0 THEN <<x>>
    ELSE IF StrLess(x, Head(s)) THEN <<x>> \o s
    ELSE <<Head(s)>> \o InsertSorted(x, Tail(s))

RECURSIVE Sorted(_)
\* sorted(s) for a list of str
Sorted(s) == IF Len(s) = 0 THEN <<>> ELSE InsertSorted(Head(s), Sorted(Tail(s)))

Range(s) == {s[i] : i \in 1..Len(s)}

-----------------------------------------------------------------------------
(* Dates *)

DaysBeforeMonth == <<0, 31, 59, 90, 120, 151, 181, 212, 243, 273, 304, 334>>
DaysInMonth == <<31, 28, 31, 30, 31, 30, 31, 31, 30, 31, 30, 31>>

\* datetime's ordinal -> (year, month, day)
Ord2Ymd(ordinal) ==
    LET n0   == ordinal - 1
        n400 == n0 \div 146097
        r400 == n0 % 146097
        n100 == r400 \div 36524
        r100 == r400 % 36524
        n4   == r100 \div 1461
        r4   == r100 % 1461
        n1   == r4 \div 365
        n    == r4 % 365
        year == n400 * 400 + 1 + n100 * 100 + n4 * 4 + n1
        leap == n1 = 3 /\ (n4 # 24 \/ n100 = 3)
        m0   == (n + 50) \div 32
        p0   == DaysBeforeMonth[m0] + (IF m0 > 2 /\ leap THEN 1 ELSE 0)
        month == IF p0 > n THEN m0 - 1 ELSE m0
        prec == IF p0 > n
                THEN p0 - (DaysInMonth[month] + (IF month = 2 /\ leap THEN 1 ELSE 0))
                ELSE p0
    IN  IF n1 = 4 \/ n100 = 4
        THEN [year |-> year - 1, month |-> 12, day |-> 31]
        ELSE [year |-> year, month |-> month, day |-> n - prec + 1]

\* d.strftime("%Y-%m-%d")
Strftime(ordinal) ==
    LET ymd == Ord2Ymd(ordinal)
    IN  ZeroPad(ymd.year, 4) \o "-" \o ZeroPad(ymd.month, 2) \o "-" \o ZeroPad(ymd.day, 2)

\* d.weekday(): 0 = Monday ... 6 = Sunday
Weekday(ordinal) == (ordinal + 6) % 7

RECURSIVE BusinessDatesLoop(_, _, _)
\* the while loop of get_past_business_dates
BusinessDatesLoop(business_dates, current_date, days) ==
    IF Len(business_dates) < days
    THEN BusinessDatesLoop(
             IF 0 <= Weekday(current_date) /\ Weekday(current_date) <= 4
             THEN Append(business_dates, Strftime(current_date))
             ELSE business_dates,
             current_date - 1, days)
    ELSE business_dates

\* a deliberately wrong variant: the trailing sorted() is dropped
get_past_business_dates_unsorted(today, days) == BusinessDatesLoop(<<>>, today, days)

\* get_past_business_dates(days) when the clock reads today
get_past_business_dates(today, days) == Sorted(BusinessDatesLoop(<<>>, today, days))

StartDays == BaseDay..(BaseDay + NumDays - 1)

Idle ==
    /\ ticks = 0 /\ dates = <<>> /\ http = <<>> /\ wti = <<>> /\ brent = <<>>
    /\ bunker_data = <<>> /\ found = <<>> /\ email_body = "" /\ console = <<>>
    /\ raised = "none"

-----------------------------------------------------------------------------
(* get_past_business_dates on its own *)

InitDates ==
    /\ pc = "call"
    /\ now \in StartDays
    /\ arg \in 1..MaxDays
    /\ ret = <<>>
    /\ Idle

CallGetPastBusinessDates ==
    /\ pc = "call"
    /\ ret' = get_past_business_dates(now, arg)
    /\ pc' = "returned"
    /\ UNCHANGED <<now, ticks, arg, dates, http, wti, brent, bunker_data,
                   found, email_body, console, raised>>

NextDates == CallGetPastBusinessDates

SpecDates == InitDates /\ [][NextDates]_vars

\* the ordinals a returned date string can stand for
DateWindow == (BaseDay - 2 * MaxDays - 7)..(BaseDay + NumDays + MaxTicks)

\* the ordinals of the n most recent Monday-Friday days at or before today
RecentBusinessDays(today, n) ==
    {d \in DateWindow :
        /\ d <= today
        /\ Weekday(d) <= 4
        /\ Cardinality({e \in d..today : Weekday(e) <= 4}) <= n}

\* C4: get_past_business_dates(N) returns exactly N dates, strictly
\* increasing, none a Saturday or Sunday, none after the current date, and
\* they are the N most recent Monday-Friday dates at or before the current date.
C4_BusinessDates ==
    (pc = "returned") =>
        /\ Len(ret) = arg
        /\ \A i \in 1..(Len(ret) - 1) : StrLess(ret[i], ret[i + 1])
        /\ \A i \in 1..Len(ret) :
               \E d \in DateWindow :
                   /\ Strftime(d) = ret[i]
                   /\ Weekday(d) \notin {5, 6}
                   /\ d <= now
        /\ Range(ret) = {Strftime(d) : d \in RecentBusinessDays(now, arg)}
        /\ Cardinality(RecentBusinessDays(now, arg)) = arg

\* a call on a Sunday for several dates, which skips the weekend and crosses
\* the turn of the year
C4_Witness ==
    /\ pc = "returned"
    /\ Weekday(now) = 6
    /\ arg >= 3
    /\ Len(ret) = arg
    /\ \E i \in 1..(Len(ret) - 1) :
           SubSeq(ret[i], 1, 4) # SubSeq(ret[i + 1], 1, 4)

-----------------------------------------------------------------------------
(* Values: a float is its number of thousandths; NA is the str "N/A" *)

NA == [num |-> FALSE, milli |-> 0, text |-> "N/A"]

Num(m) == [num |-> TRUE, milli |-> m, text |-> ""]

Abs(m) == IF m < 0 THEN -m ELSE m

\* thousandths to the nearest hundredth, ties to even, as hundredths: what
\* round(x, 2) and "%.2f" do to a float whose tie is exact in binary
\* (x.125, x.375, x.625, x.875); the model's values have no other tie
Hundredths(m) ==
    LET q == m \div 10
        r == m % 10
    IN  IF r < 5 THEN q
        ELSE IF r > 5 THEN q + 1
        ELSE IF q % 2 = 0 THEN q ELSE q + 1

\* round(x, 2)
Round2(m) == IF m < 0 THEN -(10 * Hundredths(-m)) ELSE 10 * Hundredths(m)

\* f"{x:.2f}"
Format2f(m) ==
    (IF m < 0 THEN "-" ELSE "") \o Decimal(Hundredths(Abs(m)) \div 100)
        \o "." \o ZeroPad(Hundredths(Abs(m)) % 100, 2)

RECURSIVE DigitsValue(_)
\* the number a string of digits writes ("" is 0)
DigitsValue(s) ==
    IF Len(s) = 0 THEN 0
    ELSE 10 * DigitsValue(SubSeq(s, 1, Len(s) - 1)) + DigitVal(CharAt(s, Len(s)))

AllDigits(s) == \A i \in 1..Len(s) : IsDigit(CharAt(s, i))

\* float(s) and pd.to_numeric on a str, for plain decimal notation of at most
\* 3 decimals: [ok, milli]; anything else the model's pages and answers hold
\* ("", "-", "N/A", "n.a.") is no number
ParseFloat(s) ==
    LET neg  == Len(s) > 0 /\ CharAt(s, 1) = "-"
        body == IF neg THEN SubSeq(s, 2, Len(s)) ELSE s
        dots == {i \in 1..Len(body) : CharAt(body, i) = "."}
        dot  == IF dots = {} THEN Len(body) + 1
                ELSE CHOOSE i \in dots : \A j \in dots : i <= j
        int  == SubSeq(body, 1, dot - 1)
        frac == SubSeq(body, dot + 1, Len(body))
        ok   == /\ AllDigits(int) /\ AllDigits(frac)
                /\ Len(int) + Len(frac) > 0
                /\ Len(frac) <= 3
        mag  == 1000 * DigitsValue(int)
                + DigitsValue(frac \o Repeat("0", 3 - Len(frac)))
    IN  IF ok THEN [ok |-> TRUE, milli |-> IF neg THEN -mag ELSE mag]
        ELSE [ok |-> FALSE, milli |-> 0]

\* {d: "N/A" for d in keys}
AllNA(keys) == [d \in Range(keys) |-> NA]

\* d[k] = v on a dict
Put(d, k, v) == [x \in (DOMAIN d) \cup {k} |-> IF x = k THEN v ELSE d[x]]

-----------------------------------------------------------------------------
(* The price API's answers *)

\* a JSON value of a record's "value" field
JNumber(m) == [t |-> "number", milli |-> m, s |-> ""]
JString(x) == [t |-> "str", milli |-> 0, s |-> x]
JNull      == [t |-> "null", milli |-> 0, s |-> ""]
JAbsent    == [t |-> "absent", milli |-> 0, s |-> ""]

\* the records an answer is made of; period is a date, "absent" (the record has
\* no such key) or "garbage" (a str pd.to_datetime cannot parse)
Records ==
    { [period |-> "2025-12-30", value |-> JNumber(70125)],
      [period |-> "2025-12-31", value |-> JNumber(71456)],
      [period |-> "2025-11-28", value |-> JString("69.004")],
      [period |-> "2025-12-29", value |-> JString("N/A")],
      [period |-> "2025-12-26", value |-> JAbsent],
      [period |-> "absent",     value |-> JNumber(-37630)],
      [period |-> "garbage",    value |-> JNull] }

Answer(net, status, json, data) ==
    [net |-> net, status |-> status, json |-> json, data |-> data]

\* what requests.get and response.json() can come to:
\*   net    "ok", or the exception requests.get raises
\*   status the HTTP status
\*   json   "invalid" (the body is no JSON), "array" (JSON, but no object),
\*          "no_response" / "no_data" (an object without that key), "data"
Failures ==
    { Answer("ConnectionError", 0, "invalid", <<>>),
      Answer("Timeout", 0, "invalid", <<>>),
      Answer("ok", 500, "invalid", <<>>),
      Answer("ok", 404, "data", <<>>),
      Answer("ok", 200, "invalid", <<>>),
      Answer("ok", 200, "array", <<>>),
      Answer("ok", 200, "no_response", <<>>),
      Answer("ok", 200, "no_data", <<>>) }

CrudeResponses ==
    Failures \cup
    { Answer("ok", 200, "data", d) :
        d \in UNION {[1..n -> Records] : n \in 0..MaxObs} }

\* pd.to_numeric(value, errors='coerce'): [ok, milli], not ok being NaN
ToNumeric(v) ==
    CASE v.t = "number" -> [ok |-> TRUE, milli |-> v.milli]
      [] v.t = "str"    -> ParseFloat(v.s)
      [] OTHER          -> [ok |-> FALSE, milli |-> 0]

\* df[df['value'].notna()]['value'] as a list, in the answer's order
ValidValues(data) ==
    LET nums == [i \in 1..Len(data) |-> ToNumeric(data[i].value)]
        IsOk(x) == x.ok
        kept == SelectSeq(nums, IsOk)
    IN  [i \in 1..Len(kept) |-> kept[i].milli]

\* a deliberately wrong variant: head(n) for tail(n)
TailHead(s, n) == IF Len(s) <= n THEN s ELSE SubSeq(s, 1, n)

\* Series.tail(n).tolist()
Tail_(s, n) == IF Len(s) <= n THEN s ELSE SubSeq(s, Len(s) - n + 1, Len(s))

\* the assignment loop of fetch_crude_price: the last index of a date that has
\* a price decides its entry
AssignLatest(dates_for_report, latest_available_prices) ==
    [d \in Range(dates_for_report) |->
        LET idx == {j \in 1..Len(dates_for_report) :
                       dates_for_report[j] = d /\ j <= Len(latest_available_prices)}
            i   == CHOOSE j \in idx : \A k \in idx : k <= j
        IN  IF idx = {} THEN NA
            ELSE Num(Round2(latest_available_prices[i]))]

Returned(prices, out) == [raised |-> "none", prices |-> prices, out |-> out]

Raised(e) == [raised |-> e, prices |-> <<>>, out |-> <<>>]

\* a deliberately wrong variant: a failed status falls through to the parsing of the body
StatusOkAny(status) == TRUE

\* response.status_code == 200
StatusOk(status) == status = 200

\* fetch_crude_price(series_id, api_key, dates_for_report) when the API
\* answers resp: what it raises, returns and prints
fetch_crude_price(dates_for_report, resp) ==
    LET data == IF resp.json = "data" THEN resp.data ELSE <<>>
        columns == {c \in {"period", "value"} :
                       \E i \in 1..Len(data) :
                           IF c = "period" THEN data[i].period # "absent"
                           ELSE data[i].value.t # "absent"}
    IN  IF resp.net # "ok" THEN Raised(resp.net)
        ELSE IF ~StatusOk(resp.status)
             THEN Returned(AllNA(dates_for_report), <<"Failed to fetch EIA data">>)
        ELSE IF resp.json = "invalid" THEN Raised("JSONDecodeError")
        ELSE IF resp.json = "array" THEN Raised("AttributeError")
        ELSE IF Len(data) = 0
             THEN Returned(AllNA(dates_for_report), <<"No data returned from EIA API">>)
        ELSE IF ~({"period", "value"} \subseteq columns)
             THEN Returned(AllNA(dates_for_report), <<"Unexpected data structure">>)
        ELSE IF \E i \in 1..Len(data) : data[i].period = "garbage"
             THEN Raised("ValueError")
        ELSE Returned(
                 AssignLatest(dates_for_report,
                              Tail_(ValidValues(data), Len(dates_for_report))),
                 <<>>)

-----------------------------------------------------------------------------
(* fetch_crude_price on its own *)

\* the report windows the function is called with: 1..MaxDays dates
CrudeDates == {get_past_business_dates(BaseDay + 7, n) : n \in 1..MaxDays}

InitCrude ==
    /\ pc = "call"
    /\ now = BaseDay + 7
    /\ arg \in CrudeDates
    /\ ret = <<>>
    /\ Idle

CallFetchCrudePrice ==
    /\ pc = "call"
    /\ \E resp \in CrudeResponses :
           LET r == fetch_crude_price(arg, resp)
           IN  /\ http' = Put(http, "wti", resp)
               /\ raised' = r.raised
               /\ ret' = r.prices
               /\ console' = console \o r.out
               /\ pc' = IF r.raised = "none" THEN "returned" ELSE "aborted"
    /\ UNCHANGED <<now, ticks, arg, dates, wti, brent, bunker_data, found,
                   email_body>>

NextCrude == CallFetchCrudePrice

SpecCrude == InitCrude /\ [][NextCrude]_vars

\* the indices of the records of data whose value is a number
NumericAt(data) == {j \in 1..Len(data) : ToNumeric(data[j].value).ok}

\* the p-th (from 0) numeric observation of data, in the answer's order
Observation(data, p) ==
    LET j == CHOOSE x \in NumericAt(data) :
                 Cardinality({y \in NumericAt(data) : y < x}) = p
    IN  ToNumeric(data[j].value).milli

\* an answer fetch_crude_price reads observations from: status 200, a JSON
\* object whose records carry both columns and periods that parse
Successful(resp) ==
    /\ resp.net = "ok" /\ resp.status = 200 /\ resp.json = "data"
    /\ \E i \in 1..Len(resp.data) : resp.data[i].period # "absent"
    /\ \E i \in 1..Len(resp.data) : resp.data[i].value.t # "absent"
    /\ \A i \in 1..Len(resp.data) : resp.data[i].period # "garbage"

\* C9: tail-fill. With N requested dates and k numeric observations in the
\* answer, the i-th date (i = 0..N-1) holds the observation at position
\* max(k-N, 0) + i rounded to 2 decimals when i < min(k, N), whatever that
\* observation's own date, and "N/A" when i >= k.
C9_TailFill ==
    (pc # "call" /\ Successful(http["wti"])) =>
        LET data == http["wti"].data
            N == Len(arg)
            k == Cardinality(NumericAt(data))
            skip == IF k > N THEN k - N ELSE 0
        IN  /\ pc = "returned"
            /\ DOMAIN ret = Range(arg)
            /\ \A i \in 0..(N - 1) :
                   IF i < k
                   THEN /\ ret[arg[i + 1]].num
                        /\ ret[arg[i + 1]].milli % 10 = 0
                        /\ Abs(ret[arg[i + 1]].milli - Observation(data, skip + i)) <= 5
                   ELSE ret[arg[i + 1]] = NA

\* more numeric observations than dates, a discarded entry among them, and a
\* value that rounding changes
C9_Witness ==
    /\ pc = "returned"
    /\ Successful(http["wti"])
    /\ Cardinality(NumericAt(http["wti"].data)) > Len(arg)
    /\ Cardinality(NumericAt(http["wti"].data)) < Len(http["wti"].data)
    /\ Len(arg) >= 2
    /\ ret[arg[1]].milli # Observation(http["wti"].data,
                               Cardinality(NumericAt(http["wti"].data)) - Len(arg))
    /\ ret[arg[1]] # ret[arg[2]]

-----------------------------------------------------------------------------
(* The bunker price page *)

\* days=3: the width of the report window
ReportDays == 3

Fuels == {"VLSFO", "LSMGO", "HSFO"}

\* A table of the parsed page:
\*   thead   the table has a <thead>, whose <th> cells are header
\*   header  the texts of the header cells; without a <thead> they are the
\*           cells of the table's first <tr>
\*   tbody   the table has a <tbody>; html.parser adds none
\*   rows    the <td> texts of each further <tr>
\* Without a <thead>, the header row is the first <tr> of the <tbody>, in <td>
\* cells, and the scan of the body rows meets it first.
Table(thead, header, tbody, rows) ==
    [thead |-> thead, header |-> header, tbody |-> tbody, rows |-> rows]

Page(net, status, tables) == [net |-> net, status |-> status, tables |-> tables]

\* the header row a table is recognised by, as find_all gives its texts
HeaderTexts(table) == table.header

\* "Port" in headers and "VLSFO $/mt" in headers
IsPriceTable(table) ==
    /\ "Port" \in Range(HeaderTexts(table))
    /\ "VLSFO $/mt" \in Range(HeaderTexts(table))

\* the loop over soup.find_all('table'): the index of price_table, 0 for None
FindPriceTable(tables) ==
    LET hits == {i \in 1..Len(tables) : IsPriceTable(tables[i])}
    IN  IF hits = {} THEN 0 ELSE CHOOSE i \in hits : \A j \in hits : i <= j

\* the key a header cell sets in header_indices, "" for none
HeaderKey(header_text) ==
    IF Contains(header_text, "VLSFO") THEN "VLSFO"
    ELSE IF Contains(header_text, "MGO") THEN "LSMGO"
    ELSE IF Contains(header_text, "IFO380") \/ Contains(header_text, "HSFO") THEN "HSFO"
    ELSE IF Contains(header_text, "Port") THEN "Port"
    ELSE ""

\* header_indices: each key at the last cell that sets it (from 1 here)
HeaderIndices(header) ==
    LET keys == {HeaderKey(header[i]) : i \in 1..Len(header)} \ {""}
    IN  [k \in keys |->
            CHOOSE i \in 1..Len(header) :
                /\ HeaderKey(header[i]) = k
                /\ \A j \in 1..Len(header) : HeaderKey(header[j]) = k => j <= i]

\* the rows price_table.find('tbody').find_all('tr') gives, as lists of <td> texts
BodyRows(table) ==
    IF table.thead THEN table.rows ELSE <<table.header>> \o table.rows

RECURSIVE ScanRows(_, _)
\* the loop that looks for the Singapore row: the row, <<>> for None, or the
\* IndexError of a row with too few cells
ScanRows(rows, port) ==
    IF Len(rows) = 0 THEN [raised |-> "none", row |-> <<>>]
    ELSE LET cells == Head(rows)
         IN  IF Len(cells) = 0 THEN ScanRows(Tail(rows), port)
             ELSE IF Len(cells) < port THEN [raised |-> "IndexError", row |-> <<>>]
             ELSE IF cells[port] = "Singapore" THEN [raised |-> "none", row |-> cells]
             ELSE ScanRows(Tail(rows), port)

Scan(kind, e, out, indices, row) ==
    [kind |-> kind, raised |-> e, out |-> out, header_indices |-> indices, row |-> row]

\* fetch_singapore_bunker_prices from requests.get to the Singapore row:
\* "raised", "return" (bunker_data goes back as it is) or "found"
ScanPage(page) ==
    LET t == FindPriceTable(page.tables)
        table == page.tables[t]
        indices == HeaderIndices(table.header)
        scanned == ScanRows(BodyRows(table), indices["Port"])
    IN  IF page.net # "ok" \/ page.status >= 400
        THEN Scan("return", "none", <<"Failed to fetch Ship & Bunker data">>, <<>>, <<>>)
        ELSE IF t = 0
        THEN Scan("return", "none", <<"Could not find the main prices table">>, <<>>, <<>>)
        ELSE IF ~({"Port"} \cup Fuels \subseteq DOMAIN indices)
        THEN Scan("return", "none", <<"Could not find all required price column headers">>,
                  <<>>, <<>>)
        ELSE IF ~table.tbody THEN Scan("raised", "AttributeError", <<>>, <<>>, <<>>)
        ELSE IF scanned.raised # "none" THEN Scan("raised", scanned.raised, <<>>, <<>>, <<>>)
        ELSE IF Len(scanned.row) = 0
        THEN Scan("return", "none", <<"Could not find Singapore row">>, <<>>, <<>>)
        ELSE Scan("found", "none", <<>>, indices, scanned.row)

\* the try block of fetch_singapore_bunker_prices: the three cells are read
\* first, then converted and stored one after the other until one fails
ParsePrices(data, latest_date_str, header_indices, singapore_row) ==
    LET short == \E f \in Fuels : header_indices[f] > Len(singapore_row)
        price(f) == ParseFloat(Replace(singapore_row[header_indices[f]], ","))
        set(d, f) == Put(d, f, Put(d[f], latest_date_str, Num(price(f).milli)))
        error == <<"Error parsing bunker prices">>
    IN  IF short THEN [data |-> data, out |-> error]
        ELSE IF ~price("VLSFO").ok THEN [data |-> data, out |-> error]
        ELSE IF ~price("LSMGO").ok THEN [data |-> set(data, "VLSFO"), out |-> error]
        ELSE IF ~price("HSFO").ok
             THEN [data |-> set(set(data, "VLSFO"), "LSMGO"), out |-> error]
        ELSE [data |-> set(set(set(data, "VLSFO"), "LSMGO"), "HSFO"), out |-> <<>>]

-----------------------------------------------------------------------------
(* The report *)

\* the widths of the label column and of a value cell
LabelWidth == 35
CellWidth == 6

RECURSIVE Join(_, _)
\* sep.join(parts)
Join(sep, parts) ==
    IF Len(parts) = 0 THEN ""
    ELSE IF Len(parts) = 1 THEN parts[1]
    ELSE parts[1] \o sep \o Join(sep, Tail(parts))

\* f"{val:.2f}" if isinstance(val, (int, float)) else str(val)
FormatValue(val) == IF val.num THEN Format2f(val.milli) ELSE val.text

\* values_dict.get(d, 'N/A')
Get(values_dict, d) == IF d \in DOMAIN values_dict THEN values_dict[d] ELSE NA

\* a deliberately wrong variant: only the dates the series holds get a cell
format_row_skipping(label, values_dict, report_dates_ordered) ==
    LET IsKey(d) == d \in DOMAIN values_dict
        held == SelectSeq(report_dates_ordered, IsKey)
    IN  LJust(label, LabelWidth) \o " | "
        \o Join(" | ", [i \in 1..Len(held) |->
                           LJust(FormatValue(values_dict[held[i]]), CellWidth)])

\* format_row(label, values_dict, report_dates_ordered)
format_row(label, values_dict, report_dates_ordered) ==
    LET formatted_values ==
            [i \in 1..Len(report_dates_ordered) |->
                FormatValue(Get(values_dict, report_dates_ordered[i]))]
    IN  LJust(label, LabelWidth) \o " | "
        \o Join(" | ", [i \in 1..Len(formatted_values) |->
                           LJust(formatted_values[i], CellWidth)])

Labels ==
    <<"WTI crude price", "Brent crude price", "Singapore VLSFO bunker price",
      "Singapore LSMGO bunker price", "Singapore HSFO bunker price">>

\* the header row of format_email_content
Header(report_dates_ordered) ==
    LJust("", LabelWidth) \o " | " \o LJust(report_dates_ordered[1], CellWidth)
        \o " | " \o LJust(report_dates_ordered[2], CellWidth)
        \o " | " \o LJust(report_dates_ordered[3], CellWidth)

\* format_email_content(dates, wti, brent, bunker); fewer than 3 dates raise
\* IndexError, which main's 3 dates never do
format_email_content(dates_, wti_, brent_, bunker) ==
    LET report_dates_ordered == Sorted(dates_)
        header == Header(report_dates_ordered)
    IN  Join("\n",
             << header,
                Repeat("-", Len(header)),
                format_row(Labels[1], wti_, report_dates_ordered),
                format_row(Labels[2], brent_, report_dates_ordered),
                format_row(Labels[3], bunker["VLSFO"], report_dates_ordered),
                format_row(Labels[4], bunker["LSMGO"], report_dates_ordered),
                format_row(Labels[5], bunker["HSFO"], report_dates_ordered) >>)

-----------------------------------------------------------------------------
(* format_row and format_email_content on their own *)

\* what a series holds: the sentinel, and prices of 4 to 7 characters
FormatValues == {NA, Num(70125), Num(-37630), Num(1012000), Num(5)}

\* every series over some of the dates
SeriesOver(ds) ==
    UNION {[keys -> FormatValues] : keys \in SUBSET Range(ds)}

InitFormat ==
    /\ pc = "call"
    /\ now = BaseDay + 7
    /\ \E ds \in CrudeDates, label \in {Labels[1], Labels[3]} :
           \E series \in SeriesOver(ds) :
               arg = [label |-> label, dates |-> ds, values |-> series]
    /\ ret = <<>>
    /\ Idle

CallFormatRow ==
    /\ pc = "call"
    /\ ret' = format_row(arg.label, arg.values, Sorted(arg.dates))
    /\ pc' = "returned"
    /\ UNCHANGED <<now, ticks, arg, dates, http, wti, brent, bunker_data,
                   found, email_body, console, raised>>

CallFormatEmailContent ==
    /\ pc = "call"
    /\ IF Len(arg.dates) < ReportDays
       THEN /\ raised' = "IndexError"
            /\ pc' = "aborted"
            /\ UNCHANGED email_body
       ELSE /\ email_body' = format_email_content(arg.dates, arg.values, AllNA(arg.dates),
                                                  [f \in Fuels |-> arg.values])
            /\ pc' = "formatted"
            /\ UNCHANGED raised
    /\ UNCHANGED <<now, ticks, arg, ret, dates, http, wti, brent, bunker_data,
                   found, console>>

NextFormat == CallFormatRow \/ CallFormatEmailContent

SpecFormat == InitFormat /\ [][NextFormat]_vars

RECURSIVE Split(_, _)
\* s.split(sep) for a single character sep
Split(s, sep) ==
    LET at == {i \in 1..Len(s) : CharAt(s, i) = sep}
        first == CHOOSE i \in at : \A j \in at : i <= j
    IN  IF at = {} THEN <<s>>
        ELSE <<SubSeq(s, 1, first - 1)>> \o Split(SubSeq(s, first + 1, Len(s)), sep)

RECURSIVE Strip(_)
\* s.strip() of blanks
Strip(s) ==
    IF Len(s) > 0 /\ CharAt(s, 1) = " " THEN Strip(SubSeq(s, 2, Len(s)))
    ELSE IF Len(s) > 0 /\ CharAt(s, Len(s)) = " " THEN Strip(SubSeq(s, 1, Len(s) - 1))
    ELSE s

\* an optional sign, digits, a point and exactly 2 digits
TwoDecimals(s) ==
    LET body == IF Len(s) > 0 /\ CharAt(s, 1) = "-" THEN SubSeq(s, 2, Len(s)) ELSE s
    IN  /\ Len(body) >= 4
        /\ CharAt(body, Len(body) - 2) = "."
        /\ AllDigits(SubSeq(body, 1, Len(body) - 3))
        /\ AllDigits(SubSeq(body, Len(body) - 1, Len(body)))

\* C6: a row of format_row, split on "|", is the label followed by one cell
\* per report date in date order; each cell, its padding removed, is "N/A"
\* where the series holds the sentinel or lacks the date, and else the value
\* written with exactly 2 decimals.
C6_RowCells ==
    (pc = "returned") =>
        LET cells == Split(ret, "|")
            ordered == Sorted(arg.dates)
        IN  /\ Len(cells) = 1 + Len(ordered)
            /\ Strip(cells[1]) = arg.label
            /\ \A i \in 1..Len(ordered) :
                   LET cell == Strip(cells[i + 1])
                       d == ordered[i]
                   IN  IF d \in DOMAIN arg.values /\ arg.values[d].num
                       THEN /\ TwoDecimals(cell)
                            /\ Abs(ParseFloat(cell).milli - arg.values[d].milli) <= 5
                       ELSE cell = "N/A"

\* a row of a series that mixes numbers and the sentinel and lacks a date
C6_Witness ==
    /\ pc = "returned"
    /\ Len(arg.dates) >= 3
    /\ \E d \in Range(arg.dates) : d \notin DOMAIN arg.values
    /\ \E d \in DOMAIN arg.values : arg.values[d] = NA
    /\ \E d \in DOMAIN arg.values : arg.values[d].num /\ arg.values[d].milli % 10 # 0

\* the positions of the column delimiters of a line, in order
PipePositions(line) ==
    LET at == {i \in 1..Len(line) : CharAt(line, i) = "|"}
        IsPipe(i) == i \in at
    IN  SelectSeq([i \in 1..Len(line) |-> i], IsPipe)

\* the value cells of a row are at most CellWidth characters long
FitsCells(row) ==
    \A i \in 2..Len(Split(row, "|")) : Len(Strip(Split(row, "|")[i])) <= CellWidth

\* C8: the separator line is as long as the header row, and in every series
\* row whose rendered values are at most 6 characters long each column
\* delimiter sits at the position of the header row's corresponding delimiter.
C8_Aligned ==
    (pc = "formatted") =>
        LET lines == Split(email_body, "\n")
            header == lines[1]
        IN  /\ Len(lines[2]) = Len(header)
            /\ \A r \in 3..Len(lines) :
                   FitsCells(lines[r]) =>
                       \A i \in 1..Len(PipePositions(header)) :
                           PipePositions(lines[r])[i] = PipePositions(header)[i]

-----------------------------------------------------------------------------
(* The pages and answers of a whole run *)

StandardHeader == <<"Port", "VLSFO $/mt", "MGO $/mt", "IFO380 $/mt">>

Rotterdam == <<"Rotterdam", "520.00", "700.50", "450.00">>

MainPages ==
    { Page("ConnectionError", 0, <<>>),
      Page("ok", 200, <<>>),
      Page("ok", 200, <<Table(TRUE, StandardHeader, FALSE, <<Rotterdam>>)>>),
      Page("ok", 200, <<Table(TRUE, StandardHeader, TRUE,
                              <<Rotterdam, <<"Singapore", "612.50", "1,012.00", "455.125">> >>)>>),
      Page("ok", 200, <<Table(TRUE, StandardHeader, TRUE,
                              <<Rotterdam, <<"Singapore", "-", "1,012.00", "455.125">> >>)>>) }

MainCrudeResponses ==
    Failures \cup
    { Answer("ok", 200, "data", d) :
        d \in { <<>>,
                <<[period |-> "absent", value |-> JNumber(-37630)]>>,
                <<[period |-> "2025-12-26", value |-> JAbsent]>>,
                <<[period |-> "2025-12-30", value |-> JNumber(70125)],
                  [period |-> "2025-12-31", value |-> JString("69.004")]>> } }

-----------------------------------------------------------------------------
(* send_email *)

\* what the SMTP conversation comes to: "sent", or the step that fails
SmtpOutcomes ==
    {"sent", "SMTPConnectError", "SMTPNotSupportedError", "SMTPAuthenticationError",
     "SMTPRecipientsRefused"}

\* a deliberately wrong variant: only a failed login is caught
CaughtAuthOnly(e) == e = "SMTPAuthenticationError"

\* except Exception
Caught(e) == TRUE

\* send_email(subject, body) when the transport comes to outcome
send_email(outcome) ==
    IF outcome = "sent" THEN [raised |-> "none", out |-> <<"Email sent successfully.">>]
    ELSE IF Caught(outcome) THEN [raised |-> "none", out |-> <<"Failed to send email">>]
    ELSE [raised |-> outcome, out |-> <<>>]

-----------------------------------------------------------------------------
(* main *)

Init ==
    /\ pc = "main"
    /\ now \in BaseDay..(BaseDay + RunDays - 1)
    /\ arg = <<>>
    /\ ret = <<>>
    /\ Idle

\* dates = get_past_business_dates(days=3)
GetDates ==
    /\ pc = "main"
    /\ dates' = get_past_business_dates(now, ReportDays)
    /\ pc' = "wti"
    /\ UNCHANGED <<now, ticks, arg, ret, http, wti, brent, bunker_data, found,
                   email_body, console, raised>>

\* wti = fetch_crude_price('RWTCL', EIA_API_KEY, dates)
FetchWTI ==
    /\ pc = "wti"
    /\ \E resp \in MainCrudeResponses :
           LET r == fetch_crude_price(dates, resp)
           IN  /\ http' = Put(http, "wti", resp)
               /\ raised' = r.raised
               /\ wti' = r.prices
               /\ console' = console \o r.out
               /\ pc' = IF r.raised = "none" THEN "brent" ELSE "aborted"
    /\ UNCHANGED <<now, ticks, arg, ret, dates, brent, bunker_data, found, email_body>>

\* brent = fetch_crude_price('RBRTE', EIA_API_KEY, dates)
FetchBrent ==
    /\ pc = "brent"
    /\ \E resp \in MainCrudeResponses :
           LET r == fetch_crude_price(dates, resp)
           IN  /\ http' = Put(http, "brent", resp)
               /\ raised' = r.raised
               /\ brent' = r.prices
               /\ console' = console \o r.out
               /\ pc' = IF r.raised = "none" THEN "init_VLSFO" ELSE "aborted"
    /\ UNCHANGED <<now, ticks, arg, ret, dates, wti, bunker_data, found, email_body>>

\* one entry of the bunker_data literal: its own reading of the clock
BunkerInit(fuel, here, next) ==
    /\ pc = here
    /\ bunker_data' = Put(bunker_data, fuel,
                          AllNA(get_past_business_dates(now, ReportDays)))
    /\ pc' = next
    /\ UNCHANGED <<now, ticks, arg, ret, dates, http, wti, brent, found,
                   email_body, console, raised>>

BunkerInitVLSFO == BunkerInit("VLSFO", "init_VLSFO", "init_LSMGO")
BunkerInitLSMGO == BunkerInit("LSMGO", "init_LSMGO", "init_HSFO")
BunkerInitHSFO == BunkerInit("HSFO", "init_HSFO", "bunker_get")

\* fetch_singapore_bunker_prices from requests.get to the Singapore row
BunkerScan(pages) ==
    /\ pc = "bunker_get"
    /\ \E page \in pages :
           LET r == ScanPage(page)
           IN  /\ http' = Put(http, "bunker", page)
               /\ raised' = r.raised
               /\ console' = console \o r.out
               /\ found' = IF r.kind = "found"
                           THEN [header_indices |-> r.header_indices, row |-> r.row]
                           ELSE found
               /\ pc' = CASE r.kind = "raised" -> "aborted"
                          [] r.kind = "return" -> "format"
                          [] OTHER -> "bunker_latest"
    /\ UNCHANGED <<now, ticks, arg, ret, dates, wti, brent, bunker_data, email_body>>

MainBunkerScan == BunkerScan(MainPages)

\* latest_date_str = get_past_business_dates(days=1)[0] and the try block
BunkerPrices ==
    /\ pc = "bunker_latest"
    /\ LET r == ParsePrices(bunker_data, get_past_business_dates(now, 1)[1],
                            found.header_indices, found.row)
       IN  /\ bunker_data' = r.data
           /\ console' = console \o r.out
    /\ pc' = "format"
    /\ UNCHANGED <<now, ticks, arg, ret, dates, http, wti, brent, found,
                   email_body, raised>>

\* email_body = format_email_content(dates, wti, brent, bunker)
Format ==
    /\ pc = "format"
    /\ email_body' = format_email_content(dates, wti, brent, bunker_data)
    /\ pc' = "print"
    /\ UNCHANGED <<now, ticks, arg, ret, dates, http, wti, brent, bunker_data,
                   found, console, raised>>

\* print(email_body)
PrintReport ==
    /\ pc = "print"
    /\ console' = Append(console, email_body)
    /\ pc' = "send"
    /\ UNCHANGED <<now, ticks, arg, ret, dates, http, wti, brent, bunker_data,
                   found, email_body, raised>>

\* send_email("Daily Oil and Bunker Prices Report", email_body)
SendEmail ==
    /\ pc = "send"
    /\ \E outcome \in SmtpOutcomes :
           LET r == send_email(outcome)
           IN  /\ http' = Put(http, "smtp", outcome)
               /\ raised' = r.raised
               /\ console' = console \o r.out
               /\ pc' = IF r.raised = "none" THEN "done" ELSE "aborted"
    /\ UNCHANGED <<now, ticks, arg, ret, dates, wti, brent, bunker_data, found,
                   email_body>>

\* midnight passes; the run sees it at its next reading of the clock, so it
\* is taken just before one of the readings of fetch_singapore_bunker_prices
Tick ==
    /\ pc \in {"init_VLSFO", "init_LSMGO", "init_HSFO", "bunker_latest"}
    /\ ticks < MaxTicks
    /\ now' = now + 1
    /\ ticks' = ticks + 1
    /\ UNCHANGED <<pc, arg, ret, dates, http, wti, brent, bunker_data, found,
                   email_body, console, raised>>

Next ==
    \/ GetDates \/ FetchWTI \/ FetchBrent
    \/ BunkerInitVLSFO \/ BunkerInitLSMGO \/ BunkerInitHSFO
    \/ MainBunkerScan \/ BunkerPrices
    \/ Format \/ PrintReport \/ SendEmail
    \/ Tick

Spec == Init /\ [][Next]_vars

-----------------------------------------------------------------------------
(* fetch_singapore_bunker_prices on its own *)

Headers ==
    { StandardHeader,
      <<"VLSFO $/mt", "Port", "HSFO", "LSMGO">>,
      <<"Port", "VLSFO $/mt", "MGO $/mt">>,
      <<"Port", "VLSFO", "MGO", "IFO380">>,
      <<>> }

\* Singapore rows in the column order of StandardHeader: each price either
\* parses or does not; one row is too short for the price columns; one is in
\* the column order of the second header
SingaporeRows ==
    { <<"Singapore", v, m, h>> :
        v \in {"612.50", "-"}, m \in {"1,012.00", "n.a."}, h \in {"455.125", ""} }
    \cup { <<"Singapore", "612.50">>,
           <<"612.50", "Singapore", "455.125", "1,012.00">> }

\* rows of other ports: a full one, a <tr> without <td>, a single cell
OtherRows == { Rotterdam, <<>>, <<"Fujairah">> }

RowLists ==
    { <<>> } \cup { <<r>> : r \in SingaporeRows \cup OtherRows }
    \cup { <<o, r>> : o \in OtherRows, r \in SingaporeRows \cup OtherRows }

Tables ==
    { Table(thead, header, tbody, rows) :
        thead \in BOOLEAN, header \in Headers, tbody \in BOOLEAN, rows \in RowLists }

\* a table of another kind ahead of the price table
Decoy == Table(TRUE, <<"Rank", "Port">>, TRUE, <<<<"1", "Singapore">>>>)

Pages ==
    { Page("ConnectionError", 0, <<>>), Page("Timeout", 0, <<>>),
      Page("ok", 503, <<>>), Page("ok", 200, <<>>) }
    \cup { Page("ok", 200, <<t>>) : t \in Tables }
    \cup { Page("ok", 200, <<Decoy, t>>) : t \in Tables }

InitBunker ==
    /\ pc = "init_VLSFO"
    /\ now \in BaseDay..(BaseDay + RunDays - 1)
    /\ arg = <<>>
    /\ ret = <<>>
    /\ Idle

FullBunkerScan == BunkerScan(Pages)

\* the function has returned when the run is at main's next statement
NextBunker ==
    \/ BunkerInitVLSFO \/ BunkerInitLSMGO \/ BunkerInitHSFO
    \/ FullBunkerScan \/ BunkerPrices
    \/ Tick

SpecBunker == InitBunker /\ [][NextBunker]_vars

-----------------------------------------------------------------------------
(* The run's properties *)

\* the outbound call the run made last
LastCall ==
    IF "smtp" \in DOMAIN http THEN "smtp"
    ELSE IF "bunker" \in DOMAIN http THEN "bunker"
    ELSE IF "brent" \in DOMAIN http THEN "brent"
    ELSE IF "wti" \in DOMAIN http THEN "wti"
    ELSE ""

\* the call to site raised and ended the run
AbortedAt(site) == pc = "aborted" /\ LastCall = site

Series(site) == IF site = "wti" THEN wti ELSE brent

\* the price API answers, but with a failed status, with no data, or with
\* records of which none carries 'period' or none carries 'value'
Degraded(resp) ==
    /\ resp.net = "ok"
    /\ \/ resp.status # 200
       \/ resp.json \in {"no_response", "no_data"}
       \/ /\ resp.json = "data"
          /\ \/ Len(resp.data) = 0
             \/ \A i \in 1..Len(resp.data) : resp.data[i].period = "absent"
             \/ \A i \in 1..Len(resp.data) : resp.data[i].value.t = "absent"

\* C1: when the price API answers with a non-success status, an empty data
\* payload, or records without the 'period' or the 'value' field,
\* fetch_crude_price returns normally with "N/A" for every requested date and
\* the run goes on.
C1_Degrades ==
    \A site \in {"wti", "brent"} :
        (site \in DOMAIN http /\ Degraded(http[site])) =>
            /\ ~AbortedAt(site)
            /\ DOMAIN Series(site) = Range(dates)
            /\ \A d \in Range(dates) : Series(site)[d] = NA

\* the run is at the formatting step after a 500 for WTI and records without
\* 'value' for Brent
C1_Witness ==
    /\ pc = "format"
    /\ http["wti"].status = 500
    /\ http["brent"].status = 200 /\ Len(http["brent"].data) > 0
    /\ Degraded(http["brent"])
    /\ \A d \in Range(dates) : wti[d] = NA /\ brent[d] = NA

\* the call failed on the network, or its body cannot be parsed
Unusable(resp) ==
    \/ resp.net # "ok"
    \/ resp.status = 200 /\ resp.json = "invalid"

AllSentinel(series) == \A d \in DOMAIN series : series[d] = NA

\* C2: no exception leaves a fetch step: when the WTI, Brent or bunker call
\* fails on the network or returns a body that cannot be parsed, the fetch
\* returns sentinel data and the run continues.
C2_NoPropagation ==
    /\ \A site \in {"wti", "brent"} :
           (site \in DOMAIN http /\ Unusable(http[site])) =>
               /\ ~AbortedAt(site)
               /\ DOMAIN Series(site) = Range(dates)
               /\ AllSentinel(Series(site))
    /\ ("bunker" \in DOMAIN http /\ http["bunker"].net # "ok") =>
           /\ ~AbortedAt("bunker")
           /\ \A f \in Fuels : AllSentinel(bunker_data[f])

\* C5: each of the five series handed to the formatter is keyed by exactly the
\* report dates main computed.
C5_FullyKeyed ==
    (pc \in {"format", "print", "send", "done"}) =>
        /\ DOMAIN wti = Range(dates)
        /\ DOMAIN brent = Range(dates)
        /\ \A f \in Fuels : DOMAIN bunker_data[f] = Range(dates)

Printed(text) == \E i \in 1..Len(console) : console[i] = text

\* C7: the report is printed before the send is attempted, and whatever the
\* transport does, send_email prints a diagnostic on failure and returns, so
\* the run completes.
C7_PrintedWhateverDelivery ==
    /\ (pc \in {"send", "done"} \/ "smtp" \in DOMAIN http) =>
           /\ Len(email_body) > 0
           /\ Printed(email_body)
    /\ ("smtp" \in DOMAIN http) =>
           /\ pc = "done"
           /\ raised = "none"
           /\ console[Len(console) - 1] = email_body
           /\ console[Len(console)] =
                  (IF http["smtp"] = "sent" THEN "Email sent successfully."
                   ELSE "Failed to send email")

\* the login is refused and the run is complete, the report printed
C7_Witness ==
    /\ pc = "done"
    /\ http["smtp"] = "SMTPAuthenticationError"
    /\ Printed(email_body)
    /\ console[Len(console)] = "Failed to send email"

-----------------------------------------------------------------------------
(* The bunker extractor's properties *)

\* the page was fetched
Fetched(page) == page.net = "ok" /\ page.status < 400

\* the price table, its four columns and, in its body, a Singapore row whose
\* Port cell exists
Located(page) ==
    /\ FindPriceTable(page.tables) # 0
    /\ LET table == page.tables[FindPriceTable(page.tables)]
           indices == HeaderIndices(table.header)
       IN  /\ {"Port"} \cup Fuels \subseteq DOMAIN indices
           /\ table.tbody
           /\ \E i \in 1..Len(BodyRows(table)) :
                  /\ Len(BodyRows(table)[i]) >= indices["Port"]
                  /\ BodyRows(table)[i][indices["Port"]] = "Singapore"

\* C3: if the price table, the required header columns or a Singapore row
\* cannot be located in the fetched page (a table without tbody and rows too
\* short for the Port column included), the function returns a set whose three
\* fuels are sentinel on every date, prints a diagnostic and never raises.
C3_NotLocated ==
    ("bunker" \in DOMAIN http /\ Fetched(http["bunker"]) /\ ~Located(http["bunker"])) =>
        /\ pc = "format"
        /\ raised = "none"
        /\ \A f \in Fuels : AllSentinel(bunker_data[f])
        /\ Len(console) > 0

\* the greatest key of a series
LatestKey(series) ==
    CHOOSE d \in DOMAIN series : \A e \in DOMAIN series : e = d \/ StrLess(e, d)

\* the price cell of a fuel in the Singapore row, as float() reads it
Cell(f) ==
    IF found.header_indices[f] > Len(found.row) THEN [ok |-> FALSE, milli |-> 0]
    ELSE ParseFloat(Replace(found.row[found.header_indices[f]], ","))

\* C10: once the Singapore row is located, each fuel whose cell parses holds
\* that number on the most recent report date and the sentinel before, each
\* fuel whose cell does not parse is sentinel on every date, a diagnostic is
\* printed if any cell fails, and the function returns without raising.
C10_PerFuel ==
    (pc = "format" /\ DOMAIN found # {}) =>
        /\ raised = "none"
        /\ \A f \in Fuels :
               IF Cell(f).ok
               THEN /\ bunker_data[f][LatestKey(bunker_data[f])] = Num(Cell(f).milli)
                    /\ \A d \in DOMAIN bunker_data[f] :
                           d # LatestKey(bunker_data[f]) => bunker_data[f][d] = NA
               ELSE AllSentinel(bunker_data[f])
        /\ (\E f \in Fuels : ~Cell(f).ok) => Len(console) > 0

====
